---- MODULE Spec2Model ----
(***************************************************************************)
(* Model of checks/collector.py: the Collector of the monitoring agent.   *)
(* One Collector object, the thread that calls run() and the thread (or    *)
(* signal handler) that calls stop().  run() is cut at the places where    *)
(* the other thread can be observed: before each plugin check, before each *)
(* emitter; the built-in check categories are one step each.               *)
(***************************************************************************)
EXTENDS Integers, Sequences, FiniteSets, TLC

VARIABLES
    os,                \* self.os, getOS() at construction
    agentConfig,       \* the entries of agentConfig the Collector reads
    run_count,         \* self.run_count
    continue_running,  \* self.continue_running
    metadata_start,    \* self.metadata_start
    metadata_cache,    \* self.metadata_cache
    now,               \* time.time() when it was last read (in _build_payload)
    pc,                \* where run() is
    outcome,           \* how the last run() ended
    checksd,           \* the checksd argument of the current run()
    payload,           \* the local payload of run()
    check_statuses,    \* the local check_statuses of run()
    emitter_statuses,  \* the local statuses of _emit()
    collector_status,  \* the CollectorStatus handed to persist() in this run
    check_idx,         \* position of "for check in checksd"
    emitter_idx,       \* position of "for emitter in self.emitters"
    devs,              \* history: built-in results of this run that were not the usual one
    log,               \* history: per plugin check started, what was called and what it held
    returned,          \* history: the metric lists the checks returned, concatenated
    emit_calls,        \* history: the payloads _emit() was called with
    emitted,           \* history: the emitter invocations of this run, and whether
                       \*          stop() was first called during each
    stop_i,            \* history: plugin checks started when stop() was called, if it was
                       \*          called before the first emitter of this run (else -1)
    hist,              \* history: per run(), its time, what became of the metadata and
                       \*          whether an emitter was invoked
    snapshots,         \* history: what pop_snapshots() returned in this run, per check
    probes             \* history: what the system checks, the MongoDB check and the
                       \*          dogstream check of this run returned, when none raised

vars == <<os, agentConfig, run_count, continue_running, metadata_start,
          metadata_cache, now, pc, outcome, checksd, payload, check_statuses,
          emitter_statuses, collector_status, check_idx, emitter_idx, devs,
          log, returned, emit_calls, emitted, stop_i, hist, snapshots, probes>>

(***************************************************************************)
(* Bounds of the model.                                                    *)
(***************************************************************************)
MaxRuns == 2            \* run() calls per behaviour
MaxRunsSched == 3       \* run() calls per behaviour, for the metadata schedule
MaxTimeSched == 4       \* the latest time a run() starts at, for the same
MaxChecks == 2          \* length of the checksd list
MaxDeviations == 1      \* built-in checks per run whose result is not the usual one
metadata_interval == 2  \* self.metadata_interval, in clock ticks

None == "None"
Absent == <<>>
Some(x) == <<x>>

(***************************************************************************)
(* Python values, by the shape the code tests.                             *)
(***************************************************************************)
Truthy(r) == r \notin {"none", "false", "empty"}
\* dict.update(x) and list.extend(x) need an iterable
Iterable(r) == r \notin {"none", "false"}

RECURSIVE Flatten(_)
Flatten(ss) == IF ss = <<>> THEN <<>> ELSE Head(ss) \o Flatten(Tail(ss))

RECURSIVE SeqsUpTo(_, _)
SeqsUpTo(S, n) ==
    IF n = 0 THEN {<<>>}
    ELSE LET P == SeqsUpTo(S, n - 1)
         IN  P \cup {Append(s, x) : s \in {p \in P : Len(p) = n - 1}, x \in S}

(***************************************************************************)
(* The checks and emitters registered by __init__.                         *)
(***************************************************************************)
unix_system_checks == <<"disk", "load", "memory", "io", "processes", "network", "cpu">>
win32_system_checks == <<"disk", "memory", "cpu", "network", "io", "proc">>
old_style_checks == <<"mysql", "rabbitmq", "mongodb", "couchdb", "ganglia",
                      "cassandra", "dogstream", "ddforwarder">>
metrics_checks == <<"ElasticSearch", "WMICheck", "Memcache">>
event_checks == <<"ElasticSearchClusterStatus", "Nagios", "Hudson">>
resources_checks == <<"ResProcesses">>
emitters == <<"http_emitter", "custom_emitter">>

Range(s) == {s[k] : k \in 1..Len(s)}

\* The result a built-in check gives on a host where nothing is amiss and the
\* service it probes is not configured.
Usual(c) ==
    IF c \in Range(unix_system_checks) \cup Range(win32_system_checks) THEN "data"
    ELSE IF c \in Range(resources_checks) THEN "empty"
    ELSE "false"

\* Result vectors of the checks cs: the usual results, with at most k of them
\* replaced by a result the pairs of D allow.
RECURSIVE Vectors(_, _, _)
Vectors(cs, D, k) ==
    IF k <= 0 THEN {[c \in Range(cs) |-> Usual(c)]}
    ELSE LET P == Vectors(cs, D, k - 1)
         IN  P \cup UNION {
                 {[v EXCEPT ![d[1]] = d[2]] :
                      d \in {e \in D : e[1] \in Range(cs) /\ v[e[1]] = Usual(e[1])}}
                 : v \in P}

Unusual(v) == Cardinality({c \in DOMAIN v : v[c] # Usual(c)})

\* The metric list a metric-producing check returns when it has data.
MetricsOf(c, r) == IF r = "data" THEN <<c>> ELSE <<>>

(***************************************************************************)
(* Collector._get_metadata                                                 *)
(***************************************************************************)
\* ec2: the mapping self._ec2.get_metadata() returned (its 'hostname' entry and
\* the rest); sock: whether socket.gethostname() / socket.getfqdn() return.
GetMetadata(ec2, sock) ==
    LET cfg == agentConfig.hostname
    IN  [ec2 |-> ec2.id,
         ec2_hostname |-> ec2.hostname,
         agent_hostname |-> cfg,
         hostname |-> IF cfg # None THEN cfg
                      ELSE IF sock.gethostname THEN "socket-host"
                      ELSE ec2.hostname,
         fqdn |-> IF sock.getfqdn THEN "socket-fqdn" ELSE None]

(***************************************************************************)
(* Collector._is_first_run, Collector._should_send_metadata                *)
(***************************************************************************)
IsFirstRun(rc) == rc <= 1

ShouldSendMetadataStrict(t, start) == t - start > metadata_interval

\* the value _should_send_metadata returns at time t
ShouldSendMetadata(t, start) == t - start >= metadata_interval

MetadataStartAlways(rc, t, start) ==
    IF IsFirstRun(rc) \/ ShouldSendMetadata(t, start) THEN t ELSE start

\* self.metadata_start after "self._is_first_run() or self._should_send_metadata()":
\* the "or" does not call _should_send_metadata on the first run
MetadataStart(rc, t, start) ==
    IF ~IsFirstRun(rc) /\ ShouldSendMetadata(t, start) THEN t ELSE start

MetadataDue(rc, t, start) == IsFirstRun(rc) \/ ShouldSendMetadata(t, start)

(***************************************************************************)
(* Collector._build_payload, up to the metadata                            *)
(***************************************************************************)
BaseKeys == {"collection_timestamp", "os", "python", "agentVersion", "apiKey",
             "events", "metrics", "resources", "internalHostname", "uuid"}

StartupEvent == "Agent Startup"

BasePayload(rc) ==
    [keys |-> BaseKeys \cup (IF IsFirstRun(rc) THEN {"systemStats"} ELSE {}),
     events |-> IF IsFirstRun(rc) THEN [k \in {"System"} |-> <<StartupEvent>>]
                ELSE [k \in {} |-> <<>>],
     metrics |-> <<>>,
     resources |-> [k \in {} |-> {}],
     mongoDB |-> {},
     meta |-> Absent]

\* payload['meta'] = ...; payload['tags'] = ... when the configuration has tags
WithMetadata(p, md) ==
    [p EXCEPT !.meta = Some(md),
              !.keys = @ \cup {"meta"} \cup
                       (IF agentConfig.tags # None THEN {"tags"} ELSE {})]

(***************************************************************************)
(* Merge rules of Collector.run                                            *)
(***************************************************************************)
MemoryKeys == {"memPhysUsed", "memPhysPctUsable", "memPhysFree", "memPhysTotal",
               "memPhysUsable", "memSwapUsed", "memSwapFree", "memSwapPctFree",
               "memSwapTotal", "memCached", "memBuffers", "memShared"}

Put(f, k, v) == [x \in DOMAIN f \cup {k} |-> IF x = k THEN v ELSE f[x]]

\* Unix system checks: the keys the results add to the payload
UnixSystemKeys(v) ==
       (IF Truthy(v["disk"]) THEN {"diskUsage", "inodes"} ELSE {})
    \cup (IF v["load"] = "data" THEN {"load"} ELSE {})
    \cup (IF Truthy(v["memory"]) THEN MemoryKeys ELSE {})
    \cup (IF Truthy(v["io"]) THEN {"ioStats"} ELSE {})
    \cup {"processes"}
    \cup {"networkTraffic"}
    \cup (IF Truthy(v["cpu"]) THEN {"cpuStats"} ELSE {})

\* payload.update(load) raises TypeError unless load is a mapping
UnixSystemRaises(v) == ~Iterable(v["load"])

\* Win32 system checks: metrics.extend(result) for each, in the order of the code
Win32SystemMetrics(v) ==
    Flatten([k \in 1..Len(win32_system_checks) |->
                 MetricsOf(win32_system_checks[k], v[win32_system_checks[k]])])

Win32SystemRaises(v) == \E c \in Range(win32_system_checks) : ~Iterable(v[c])

\* Old-style checks: the keys added to the payload
OldStyleKeys(v) ==
       (IF v["ganglia"] \notin {"false", "none"} THEN {"ganglia"} ELSE {})
    \cup (IF v["cassandra"] \notin {"false", "none"} THEN {"cassandra"} ELSE {})
    \cup (IF Truthy(v["mysql"]) THEN {"mysqlStatus"} ELSE {})
    \cup (IF Truthy(v["rabbitmq"]) THEN {"rabbitMQ"} ELSE {})
    \cup (IF Truthy(v["mongodb"]) THEN {"mongoDB"} ELSE {})
    \cup (IF Truthy(v["couchdb"]) THEN {"couchDB"} ELSE {})
    \cup (IF Truthy(v["dogstream"]) THEN {"dogstream"} ELSE {})
    \cup (IF v["dogstream"] = "events_empty" THEN {"dogstreamEvents"} ELSE {})
    \cup (IF Truthy(v["ddforwarder"]) THEN {"datadog"} ELSE {})

\* the keys of payload['mongoDB']: 'events' is deleted when it was there
MongoKeys(v) == IF Truthy(v["mongodb"]) THEN {"status"} ELSE {}

\* mongodb['events']['Mongo'] raises KeyError when the events mapping has no 'Mongo'
OldStyleRaises(v) == v["mongodb"] = "events_nokey"

MongoEvents == <<"mongo-event">>
DogstreamEvents == <<"dogstream-event">>

OldStyleEvents(ev, v) ==
    LET e1 == IF v["mongodb"] = "events" THEN Put(ev, "Mongo", MongoEvents) ELSE ev
    IN  IF v["dogstream"] = "events"
        THEN IF "dogstream" \in DOMAIN e1
             THEN Put(e1, "dogstream", e1["dogstream"] \o DogstreamEvents)
             ELSE Put(e1, "dogstream", DogstreamEvents)
        ELSE e1

\* events[event_check.key] = event_data, for each event check with data; the
\* key of a check is written as its name
RECURSIVE EventCheckEvents(_, _, _)
EventCheckEvents(ev, v, k) ==
    IF k > Len(event_checks) THEN ev
    ELSE LET c == event_checks[k]
         IN  EventCheckEvents(IF Truthy(v[c]) THEN Put(ev, c, <<c>>) ELSE ev, v, k + 1)

ResourcesAlwaysMeta(v) ==
    LET have == {c \in Range(resources_checks) : Truthy(v[c])}
    IN  [k \in have \cup {"meta"} |->
            IF k = "meta" THEN {"api_key", "host"}
            ELSE {"snaps", "format_version"} \cup
                 (IF v[k] = "data_fmt" THEN {"format_description"} ELSE {})]

\* payload['resources'] after the resource checks
Resources(v) ==
    LET have == {c \in Range(resources_checks) : Truthy(v[c])}
    IN  [k \in have \cup (IF have # {} THEN {"meta"} ELSE {}) |->
            IF k = "meta" THEN {"api_key", "host"}
            ELSE {"snaps", "format_version"} \cup
                 (IF v[k] = "data_fmt" THEN {"format_description"} ELSE {})]

\* metrics.extend(res) for each metric check with a result
MetricsChecksMetrics(v) ==
    Flatten([k \in 1..Len(metrics_checks) |->
                 IF Truthy(v[metrics_checks[k]])
                 THEN MetricsOf(metrics_checks[k], v[metrics_checks[k]]) ELSE <<>>])

MergeEventsOverwrite(ev, name, new) ==
    IF new # <<>> THEN Put(ev, name, new) ELSE ev

\* the events of a plugin check, stored under its name
MergeEvents(ev, name, new) ==
    IF new # <<>>
    THEN IF name \notin DOMAIN ev THEN Put(ev, name, new)
         ELSE Put(ev, name, ev[name] \o new)
    ELSE ev

CheckStatus(name, instance_statuses, metric_count, event_count) ==
    [name |-> name, instance_statuses |-> instance_statuses,
     metric_count |-> metric_count, event_count |-> event_count]

EmitterStatus(name, error) == [name |-> name, error |-> error]

CollectorStatus(cs, es, md) ==
    [check_statuses |-> cs, emitter_statuses |-> es, metadata |-> md]

\* o: what one plugin check does in this iteration: where it raises, and the
\* instance statuses, metrics and events it holds when run() is over.
\* The try block ends at the first call that raises.
Collected(o) == o.raise = "none"
Calls(o) ==
    CASE o.raise = "run" -> {"run"}
      [] o.raise = "get_metrics" -> {"run", "get_metrics"}
      [] OTHER -> {"run", "get_metrics", "get_events"}

StatusOfCountsAtReturn(name, o) ==
    CheckStatus(name,
                IF o.raise = "run" THEN <<>> ELSE o.inst,
                IF o.raise \in {"none", "get_events"} THEN Len(o.metrics) ELSE 0,
                IF o.raise = "none" THEN Len(o.events) ELSE 0)

\* instance_statuses, metric_count and event_count keep the values of lines
\* 288-290 unless the assignments of lines 293, 308 and 309 are reached
StatusOf(name, o) ==
    CheckStatus(name,
                IF o.raise = "run" THEN <<>> ELSE o.inst,
                IF Collected(o) THEN Len(o.metrics) ELSE 0,
                IF Collected(o) THEN Len(o.events) ELSE 0)

RecordStatusUnlessRaised(statuses, name, o) ==
    IF Collected(o) THEN Append(statuses, StatusOf(name, o)) ELSE statuses

\* check_statuses.append(check_status), after the try block
RecordStatus(statuses, name, o) == Append(statuses, StatusOf(name, o))

NextEmitterBreak(k, r) == IF r = "raise" THEN Len(emitters) + 1 ELSE k + 1

\* the emitter loop goes on to the next emitter, whatever the emitter did
NextEmitter(k, r) == k + 1

(***************************************************************************)
(* The state after Collector.__init__, at time 0.  E is the environment:   *)
(* the inputs the collaborators may give.                                  *)
(***************************************************************************)
InitIn(E) ==
    /\ os \in E.os
    /\ agentConfig \in E.configs
    /\ run_count = 0
    /\ continue_running = TRUE
    /\ now = 0
    /\ metadata_start = 0
    /\ metadata_cache = Absent
    /\ pc = "idle"
    /\ outcome = "none"
    /\ checksd = <<>>
    /\ payload = BasePayload(0)
    /\ check_statuses = <<>>
    /\ emitter_statuses = <<>>
    /\ collector_status = Absent
    /\ check_idx = 1
    /\ emitter_idx = 1
    /\ devs = 0
    /\ log = <<>>
    /\ returned = <<>>
    /\ emit_calls = <<>>
    /\ emitted = <<>>
    /\ stop_i = -1
    /\ hist = <<>>
    /\ snapshots = <<>>
    /\ probes = Absent

construction == <<os, agentConfig>>
collector == <<run_count, continue_running, metadata_start, metadata_cache>>
locals == <<checksd, payload, check_statuses, emitter_statuses, collector_status,
            check_idx, emitter_idx>>
history == <<devs, log, returned, emit_calls, emitted, stop_i, hist, snapshots>>

\* plugin checks whose run() has been called in the current run
Started == IF pc = "running" THEN check_idx ELSE check_idx - 1

\* the run has not yet come to the test that precedes the first emitter
BeforeEmit == \/ pc \in {"system", "legacy", "event", "resource", "metric",
                         "plugin", "running"}
              \/ pc = "emit" /\ emitter_idx = 1

\* Collector.stop, from another thread
Stop ==
    /\ continue_running' = FALSE
    /\ stop_i' = IF continue_running /\ BeforeEmit THEN Started ELSE stop_i
    /\ emitted' = IF continue_running /\ pc = "emitting"
                  THEN [emitted EXCEPT ![Len(emitted)].stop = TRUE]
                  ELSE emitted
    /\ UNCHANGED <<construction, run_count, metadata_start, metadata_cache, now,
                   pc, outcome, locals, devs, log, returned, emit_calls,
                   hist, snapshots, probes>>

\* run(checksd) up to the system checks: run_count, _build_payload.
\* t is what time.time() returns: the clock never goes back.
RunStart(E) ==
    /\ pc = "idle"
    /\ run_count < E.runs
    /\ \E cl \in E.lists, ec2 \in E.ec2, sock \in E.sock, t \in now..E.time :
        LET rc == run_count + 1
            due == MetadataDue(rc, t, metadata_start)
            failed == due /\ ec2.raises
            md == GetMetadata(ec2, sock)
        IN  /\ run_count' = rc
            /\ now' = t
            /\ metadata_start' = MetadataStart(rc, t, metadata_start)
            /\ checksd' = cl
            /\ metadata_cache' = IF due /\ ~failed THEN Some(md) ELSE metadata_cache
            /\ payload' = IF due /\ ~failed THEN WithMetadata(BasePayload(rc), md)
                          ELSE BasePayload(rc)
            /\ pc' = IF failed THEN "idle" ELSE "system"
            /\ outcome' = IF failed THEN "exc_build" ELSE "none"
            /\ hist' = Append(hist, [t |-> t, called |-> due,
                                     attached |-> due /\ ~failed,
                                     delivered |-> FALSE])
    /\ check_statuses' = <<>>
    /\ emitter_statuses' = <<>>
    /\ collector_status' = Absent
    /\ check_idx' = 1
    /\ emitter_idx' = 1
    /\ devs' = 0
    /\ log' = <<>>
    /\ returned' = <<>>
    /\ emit_calls' = <<>>
    /\ emitted' = <<>>
    /\ stop_i' = IF continue_running THEN -1 ELSE 0
    /\ snapshots' = <<>>
    /\ probes' = Absent
    /\ UNCHANGED <<construction, continue_running>>

\* an exception leaves run(): nothing after the raising call is executed
Raise(phase) ==
    /\ pc' = "idle"
    /\ outcome' = phase
    /\ UNCHANGED <<construction, collector, now, locals, history>>

Propagate(phase) == Raise(phase) /\ UNCHANGED probes

\* lines 145-195
SystemChecks(E) ==
    /\ pc = "system"
    /\ LET cs == IF os = "windows" THEN win32_system_checks ELSE unix_system_checks
       IN  \E v \in Vectors(cs, E.dev, E.budget - devs),
              x \in {"-"} \cup (E.raise \cap Range(cs)) :
          /\ probes' = Some([results |-> IF x = "-" THEN Some(v) ELSE Absent,
                              raised |-> x, legacy |-> Absent])
          /\ IF x # "-" \/ (IF os = "windows" THEN Win32SystemRaises(v)
                                              ELSE UnixSystemRaises(v))
             THEN Raise("exc_system")
             ELSE /\ payload' =
                       IF os = "windows"
                       THEN [payload EXCEPT !.metrics = @ \o Win32SystemMetrics(v)]
                       ELSE [payload EXCEPT !.keys = @ \cup UnixSystemKeys(v)]
                  /\ returned' = IF os = "windows"
                                 THEN returned \o Win32SystemMetrics(v) ELSE returned
                  /\ devs' = devs + Unusual(v)
                  /\ pc' = "legacy"
                  /\ UNCHANGED <<construction, collector, now, outcome, checksd,
                                 check_statuses, emitter_statuses, collector_status,
                                 check_idx, emitter_idx, log, emit_calls, emitted,
                                 stop_i, hist, snapshots>>

\* lines 197-246
OldStyleChecks(E) ==
    /\ pc = "legacy"
    /\ \E v \in Vectors(old_style_checks, E.dev, E.budget - devs),
          x \in {"-"} \cup (E.raise \cap Range(old_style_checks)) :
      /\ probes' = Some([probes[1] EXCEPT
                             !.legacy = IF x = "-"
                                        THEN Some([mongodb |-> v["mongodb"],
                                                   dogstream |-> v["dogstream"]])
                                        ELSE Absent])
      /\ IF x # "-" \/ OldStyleRaises(v)
         THEN Raise("exc_legacy")
         ELSE /\ payload' = [payload EXCEPT !.keys = @ \cup OldStyleKeys(v),
                                            !.mongoDB = MongoKeys(v),
                                            !.events = OldStyleEvents(@, v)]
              /\ devs' = devs + Unusual(v)
              /\ pc' = "event"
              /\ UNCHANGED <<construction, collector, now, outcome, checksd,
                             check_statuses, emitter_statuses, collector_status,
                             check_idx, emitter_idx, log, returned, emit_calls,
                             emitted, stop_i, hist, snapshots>>

\* lines 248-252
EventChecks(E) ==
    /\ pc = "event"
    /\ \E v \in Vectors(event_checks, E.dev, E.budget - devs),
          x \in {"-"} \cup (E.raise \cap Range(event_checks)) :
         IF x # "-"
         THEN Propagate("exc_event")
         ELSE /\ payload' = [payload EXCEPT !.events = EventCheckEvents(@, v, 1)]
              /\ devs' = devs + Unusual(v)
              /\ pc' = "resource"
              /\ UNCHANGED <<construction, collector, now, outcome, checksd,
                             check_statuses, emitter_statuses, collector_status,
                             check_idx, emitter_idx, log, returned, emit_calls,
                             emitted, stop_i, hist, snapshots, probes>>

\* lines 254-273
ResourcesChecks(E) ==
    /\ pc = "resource"
    /\ \E v \in IF os # "windows"
                THEN Vectors(resources_checks, E.dev, E.budget - devs)
                ELSE Vectors(resources_checks, {}, 0),
          x \in {"-"} \cup (IF os # "windows"
                            THEN E.raise \cap Range(resources_checks) ELSE {}) :
         IF x # "-"
         THEN Propagate("exc_resource")
         ELSE /\ payload' = IF os # "windows"
                            THEN [payload EXCEPT !.resources = Resources(v)]
                            ELSE payload
              /\ devs' = devs + Unusual(v)
              /\ snapshots' = IF os # "windows" THEN v ELSE snapshots
              /\ pc' = "metric"
              /\ UNCHANGED <<construction, collector, now, outcome, checksd,
                             check_statuses, emitter_statuses, collector_status,
                             check_idx, emitter_idx, log, returned, emit_calls,
                             emitted, stop_i, hist, probes>>

\* lines 275-283
MetricsChecks(E) ==
    /\ pc = "metric"
    /\ \E v \in Vectors(metrics_checks, E.dev, E.budget - devs),
          x \in {"-"} \cup (E.raise \cap Range(metrics_checks)) :
         IF x # "-"
         THEN Propagate("exc_metric")
         ELSE /\ payload' = [payload EXCEPT !.metrics = @ \o MetricsChecksMetrics(v)]
              /\ returned' = returned \o MetricsChecksMetrics(v)
              /\ devs' = devs + Unusual(v)
              /\ pc' = "plugin"
              /\ UNCHANGED <<construction, collector, now, outcome, checksd,
                             check_statuses, emitter_statuses, collector_status,
                             check_idx, emitter_idx, log, emit_calls, emitted,
                             stop_i, hist, snapshots, probes>>

PluginStopNever == FALSE

\* "if not self.continue_running" at the head of the plugin loop
PluginStop == ~continue_running

\* lines 284-287, and 315-320 when the list is exhausted: _emit(payload) is called
PluginLoopHead ==
    /\ pc = "plugin"
    /\ IF check_idx <= Len(checksd)
       THEN /\ pc' = IF PluginStop THEN "idle" ELSE "running"
            /\ outcome' = IF PluginStop THEN "stopped" ELSE outcome
            /\ UNCHANGED <<emit_calls>>
       ELSE /\ pc' = "emit"
            /\ emit_calls' = Append(emit_calls, payload)
            /\ UNCHANGED <<outcome>>
    /\ UNCHANGED <<construction, collector, now, locals, devs, log, returned,
                   emitted, stop_i, hist, snapshots, probes>>

\* lines 288-313: one plugin check
PluginCheck(E) ==
    /\ pc = "running"
    /\ \E o \in E.plugin :
        LET name == checksd[check_idx]
        IN  /\ payload' =
                  IF Collected(o)
                  THEN [payload EXCEPT !.metrics = @ \o o.metrics,
                                       !.events = MergeEvents(@, name, o.events)]
                  ELSE payload
            /\ check_statuses' = RecordStatus(check_statuses, name, o)
            /\ log' = Append(log, [name |-> name, raise |-> o.raise, calls |-> Calls(o),
                                   metrics |-> o.metrics, events |-> o.events])
            /\ returned' = IF "get_metrics" \in Calls(o) /\ o.raise # "get_metrics"
                           THEN returned \o o.metrics ELSE returned
    /\ check_idx' = check_idx + 1
    /\ pc' = "plugin"
    /\ UNCHANGED <<construction, collector, now, outcome, checksd, emitter_statuses,
                   collector_status, emitter_idx, devs, emit_calls, emitted, stop_i,
                   hist, snapshots, probes>>

EmitStopNever == FALSE

\* "if not self.continue_running" at the head of the emitter loop
EmitStop == ~continue_running

ReturnNothingOnStop(statuses) == <<>>

\* "return statuses" at the test of continue_running
ReturnOnStop(statuses) == statuses

\* lines 335-340, and 347 / 338 when _emit returns
EmitLoopHead ==
    /\ pc = "emit"
    /\ IF emitter_idx > Len(emitters) \/ EmitStop
       THEN /\ pc' = "persist"
            /\ emitter_statuses' = IF emitter_idx > Len(emitters)
                                   THEN emitter_statuses
                                   ELSE ReturnOnStop(emitter_statuses)
            /\ UNCHANGED <<emitted, hist>>
       ELSE /\ pc' = "emitting"
            /\ emitted' = Append(emitted, [name |-> emitters[emitter_idx],
                                           payload |-> payload, result |-> "running",
                                           stop |-> FALSE])
            /\ hist' = [hist EXCEPT ![Len(hist)].delivered = TRUE]
            /\ UNCHANGED emitter_statuses
    /\ UNCHANGED <<construction, collector, now, outcome, checksd, payload,
                   check_statuses, collector_status, check_idx, emitter_idx, devs,
                   log, returned, emit_calls, stop_i, snapshots, probes>>

\* lines 341-346: one emitter
Emitter(E) ==
    /\ pc = "emitting"
    /\ \E r \in E.emit :
        /\ emitter_statuses' =
              Append(emitter_statuses,
                     EmitterStatus(emitters[emitter_idx],
                                   IF r = "raise" THEN "exception" ELSE None))
        /\ emitter_idx' = NextEmitter(emitter_idx, r)
        /\ emitted' = [emitted EXCEPT ![Len(emitted)].result = r]
    /\ pc' = "emit"
    /\ UNCHANGED <<construction, collector, now, outcome, checksd, payload,
                   check_statuses, collector_status, check_idx, devs, log, returned,
                   emit_calls, stop_i, hist, snapshots, probes>>

PersistOutcomeRaises(r) == IF r = "raise" THEN "exc_persist" ELSE "finished"

\* how run() ends after persist() did r: "except Exception" logs and goes on
PersistOutcome(r) == "finished"

\* lines 323-330: r is what persist() does
Persist(E) ==
    /\ pc = "persist"
    /\ \E r \in E.persist :
        /\ collector_status' =
              Some([status |-> CollectorStatus(check_statuses, emitter_statuses,
                                               metadata_cache),
                    persist |-> r])
        /\ outcome' = PersistOutcome(r)
    /\ pc' = "idle"
    /\ UNCHANGED <<construction, collector, now, checksd, payload, check_statuses,
                   emitter_statuses, check_idx, emitter_idx, history, probes>>

NextIn(E) ==
    \/ Stop
    \/ RunStart(E)
    \/ SystemChecks(E)
    \/ OldStyleChecks(E)
    \/ EventChecks(E)
    \/ ResourcesChecks(E)
    \/ MetricsChecks(E)
    \/ PluginLoopHead
    \/ PluginCheck(E)
    \/ EmitLoopHead
    \/ Emitter(E)
    \/ Persist(E)

(***************************************************************************)
(* Environments.                                                           *)
(***************************************************************************)
Names == {"System", "dogstream"}

Ec2Ok == [raises |-> FALSE, hostname |-> None, id |-> "i-1"]
Ec2Host == [raises |-> FALSE, hostname |-> "ip-10-0-0-1", id |-> "i-2"]
Ec2Raises == [raises |-> TRUE, hostname |-> None, id |-> None]
SockOk == [gethostname |-> TRUE, getfqdn |-> TRUE]
SockFails == [gethostname |-> FALSE, getfqdn |-> FALSE]

Outcome(raise, inst, metrics, events) ==
    [raise |-> raise, inst |-> inst, metrics |-> metrics, events |-> events]

PluginOutcomes ==
    {Outcome("none", <<"OK">>, <<"m">>, <<"e">>),
     Outcome("none", <<>>, <<>>, <<>>),
     Outcome("run", <<>>, <<"m">>, <<"e">>),
     Outcome("get_metrics", <<"OK">>, <<"m">>, <<>>),
     Outcome("get_events", <<"OK">>, <<"m">>, <<"e">>)}

\* the plugin loop: everything a plugin check can do, a few of the built-in
\* results, every run() at the time of construction
EnvRun ==
    [runs |-> MaxRuns, time |-> 0,
     os |-> {"linux"},
     configs |-> {[tags |-> None, hostname |-> None]},
     lists |-> SeqsUpTo(Names, MaxChecks),
     ec2 |-> {Ec2Ok}, sock |-> {SockOk},
     dev |-> {<<"dogstream", "events">>, <<"Memcache", "data">>},
     budget |-> MaxDeviations,
     raise |-> {"disk", "mysql", "Nagios", "ResProcesses", "WMICheck"},
     plugin |-> PluginOutcomes,
     emit |-> {"ok"},
     persist |-> {"ok"}]

Init == InitIn(EnvRun)
Next == NextIn(EnvRun)
Spec == Init /\ [][Next]_vars

\* the emitters and persist(): everything they can do, under a usual collection
EnvEmit ==
    [runs |-> MaxRuns, time |-> 0,
     os |-> {"linux"},
     configs |-> {[tags |-> None, hostname |-> None]},
     lists |-> SeqsUpTo({"System"}, 1),
     ec2 |-> {Ec2Ok}, sock |-> {SockOk},
     dev |-> {}, budget |-> 0,
     raise |-> {"Hudson"},
     plugin |-> {Outcome("none", <<"OK">>, <<"m">>, <<"e">>),
                 Outcome("run", <<>>, <<>>, <<>>)},
     emit |-> {"ok", "raise"},
     persist |-> {"ok", "raise"}]

InitEmit == InitIn(EnvEmit)
NextEmit == NextIn(EnvEmit)
SpecEmit == InitEmit /\ [][NextEmit]_vars

SystemResults == {"none", "false", "empty"}
FlatResults == {"none", "empty", "data"}

\* the built-in checks: every result shape the code tells apart, on both
\* operating systems, under one usual plugin check
EnvBuiltin ==
    [runs |-> MaxRuns, time |-> 0,
     os |-> {"linux", "windows"},
     configs |-> {[tags |-> None, hostname |-> None]},
     lists |-> {<<>>, <<"Mongo">>, <<"dogstream">>},
     ec2 |-> {Ec2Ok}, sock |-> {SockOk},
     dev |-> (Range(unix_system_checks) \cup Range(win32_system_checks))
                 \X SystemResults
             \cup {"mysql", "rabbitmq", "couchdb", "ganglia", "cassandra",
                   "ddforwarder"} \X FlatResults
             \cup {"mongodb"} \X {"none", "data", "events", "events_nokey"}
             \cup {"dogstream"} \X {"none", "data", "events", "events_empty"}
             \cup Range(event_checks) \X {"none", "data"}
             \cup Range(resources_checks) \X {"none", "data", "data_fmt"}
             \cup Range(metrics_checks) \X FlatResults,
     budget |-> MaxDeviations,
     raise |-> Range(unix_system_checks) \cup Range(win32_system_checks)
               \cup Range(old_style_checks) \cup Range(event_checks)
               \cup Range(resources_checks) \cup Range(metrics_checks),
     plugin |-> {Outcome("none", <<"OK">>, <<"m">>, <<"e">>)},
     emit |-> {"ok"},
     persist |-> {"ok"}]

InitBuiltin == InitIn(EnvBuiltin)
NextBuiltin == NextIn(EnvBuiltin)
SpecBuiltin == InitBuiltin /\ [][NextBuiltin]_vars

\* the metadata schedule: runs at any times, every configuration and result of
\* the metadata computation, under a usual collection
EnvSched ==
    [runs |-> MaxRunsSched, time |-> MaxTimeSched,
     os |-> {"linux"},
     configs |-> {[tags |-> None, hostname |-> None],
                 [tags |-> "env:prod", hostname |-> "configured-host"]},
     lists |-> {<<"System">>},
     ec2 |-> {Ec2Ok, Ec2Host, Ec2Raises}, sock |-> {SockOk, SockFails},
     dev |-> {}, budget |-> 0,
     raise |-> {"load"},
     plugin |-> {Outcome("none", <<"OK">>, <<"m">>, <<"e">>)},
     emit |-> {"ok"},
     persist |-> {"ok", "raise"}]

InitSched == InitIn(EnvSched)
NextSched == NextIn(EnvSched)
SpecSched == InitSched /\ [][NextSched]_vars

(***************************************************************************)
(* Properties.                                                             *)
(***************************************************************************)
RunOver == pc = "idle" /\ outcome # "none"
Emitting == pc \in {"emit", "emitting", "persist"}
Finished == pc = "idle" /\ outcome = "finished"
BuiltinException == {"exc_system", "exc_legacy", "exc_event", "exc_resource",
                     "exc_metric"}
NamesOf(ss) == [k \in 1..Len(ss) |-> ss[k].name]
Prefix(ss, n) == [k \in 1..n |-> ss[k]]

\* C1: with no stop request, and whichever plugin checks raise (in run() or in
\* the calls after it), the plugin loop goes through the whole list: after k
\* iterations k checks have been run and k statuses recorded, with the names of
\* the first k checks of the list in order; once the loop is over every check
\* of the list has been run, there is one CheckStatus per check in list order,
\* and _emit() has been called exactly once, with the payload.
C1_EveryPluginCheckRunsAndIsRecorded ==
    continue_running =>
        /\ pc \in {"plugin", "running"} =>
               /\ Len(log) = check_idx - 1
               /\ check_idx - 1 <= Len(checksd)
               /\ NamesOf(log) = Prefix(checksd, check_idx - 1)
               /\ NamesOf(check_statuses) = Prefix(checksd, check_idx - 1)
               /\ emit_calls = <<>>
        /\ Emitting \/ Finished =>
               /\ NamesOf(log) = checksd
               /\ NamesOf(check_statuses) = checksd
               /\ emit_calls = <<payload>>
        /\ RunOver => outcome \in {"finished", "exc_build"} \cup BuiltinException
        /\ RunOver /\ outcome # "finished" => log = <<>>

\* a run with no stop request is over: its first plugin check raised in run(),
\* its second did not
C1_Witness ==
    /\ continue_running
    /\ Finished
    /\ Len(checksd) = 2
    /\ log[1].raise = "run"
    /\ log[2].raise = "none"
    /\ Len(check_statuses) = 2

\* C2: the CheckStatus recorded for a plugin check whose run() raised differs
\* from the CheckStatus of the same check had it run successfully and reported
\* no instance status, no metric and no event.
C2_RaisedCheckStatusIsDistinguishable ==
    \A k \in 1..Len(log) :
        (log[k].raise = "run" /\ k <= Len(check_statuses)) =>
            check_statuses[k] # CheckStatus(log[k].name, <<>>, 0, 0)

\* C3: for every plugin check whose iteration is over, get_metrics() and
\* get_events() were called after run(), whether or not run() raised, and the
\* metrics the checks held are the tail of the payload's metric list.  (Stated
\* for the runs in which no call other than run() raises.)
C3_CollectedWhetherOrNotRunRaised ==
    (\A k \in 1..Len(log) : log[k].raise \in {"none", "run"}) =>
        /\ \A k \in 1..Len(log) :
               {"get_metrics", "get_events"} \subseteq log[k].calls
        /\ LET held == Flatten([k \in 1..Len(log) |-> log[k].metrics])
               n == Len(payload.metrics)
           IN  /\ Len(held) <= n
               /\ SubSeq(payload.metrics, n - Len(held) + 1, n) = held

\* C4: an exception raised by a built-in check never leaves run(): a run that is
\* over has either been stopped or has called _emit() and persisted a
\* CollectorStatus.
C4_BuiltinExceptionNeverLeavesRun ==
    RunOver =>
        \/ outcome = "stopped"
        \/ outcome = "finished" /\ emit_calls # <<>> /\ collector_status # Absent

\* C5: once stop() has been called before the emit step of a run, with s plugin
\* checks started and at least one more in the list, no further plugin check is
\* started, _emit() is not called, no emitter is invoked and no CollectorStatus
\* is persisted in that run, and the run does not finish: it returns at the
\* head of the plugin loop (or an exception of a built-in check has ended it).
C5_StopBeforeRemainingChecks ==
    (stop_i >= 0 /\ stop_i < Len(checksd)) =>
        /\ Started = stop_i
        /\ emit_calls = <<>>
        /\ emitted = <<>>
        /\ collector_status = Absent
        /\ RunOver => outcome \in {"stopped"} \cup BuiltinException

\* stop() came while the first of two plugin checks was running, and the run
\* has returned
C5_Witness ==
    /\ stop_i = 1
    /\ Len(checksd) = 2
    /\ Len(log) = 1
    /\ RunOver
    /\ outcome = "stopped"

\* C6: in a run with no stop request that gets to _emit(), every registered
\* emitter is invoked exactly once, in registration order, with the payload of
\* the run, whichever emitters raise: after k emitters k invocations and k
\* statuses are recorded, and when the run has finished there is one
\* EmitterStatus per emitter, in the same order, with an error exactly when
\* that emitter's invocation raised.
C6_EveryEmitterRunsAndIsRecorded ==
    continue_running =>
        /\ pc = "emit" =>
               /\ Len(emitted) = emitter_idx - 1
               /\ Len(emitter_statuses) = emitter_idx - 1
               /\ emitter_idx - 1 <= Len(emitters)
        /\ pc = "persist" \/ Finished =>
               /\ NamesOf(emitted) = emitters
               /\ NamesOf(emitter_statuses) = emitters
        /\ \A k \in 1..Len(emitted) :
               /\ emitted[k].name = emitters[k]
               /\ emitted[k].payload = payload
               /\ emit_calls = <<payload>>
               /\ k <= Len(emitter_statuses) =>
                      /\ emitter_statuses[k].name = emitters[k]
                      /\ (emitter_statuses[k].error # None)
                             <=> (emitted[k].result = "raise")

\* a run with no stop request has finished; its first emitter raised, its
\* second did not
C6_Witness ==
    /\ continue_running
    /\ Finished
    /\ Len(emitted) = 2
    /\ emitted[1].result = "raise"
    /\ emitted[2].result = "ok"
    /\ emitter_statuses[1].error # None
    /\ emitter_statuses[2].error = None

Latest(S) == IF S = {} THEN 0 ELSE CHOOSE j \in S : \A x \in S : x <= j

\* the time of the latest run before run k that attached Metadata (there is one
\* when k > 1 and run #1 attached it)
LastAttached(k) == hist[Latest({j \in 1..(k - 1) : hist[j].attached})].t

\* the time of the latest run after run #1 and before run k that computed
\* Metadata, or the time of the construction
LastLaterComputation(k) ==
    LET j == Latest({x \in 2..(k - 1) : hist[x].called})
    IN  IF j = 0 THEN 0 ELSE hist[j].t

\* C7, as claimed: Metadata is attached to the payload of run #1, and to a later
\* run iff at least metadata_interval has elapsed since the most recent earlier
\* run that attached it, run #1 included.  (Stated for the behaviours in which
\* get_metadata() never raises.)
C7_AttachedSinceLastAttach ==
    (\A k \in 1..Len(hist) : hist[k].called => hist[k].attached) =>
        \A k \in 1..Len(hist) :
            hist[k].attached <=>
                \/ k = 1
                \/ k > 1 /\ hist[k].t - LastAttached(k) >= metadata_interval

\* C7, amended: Metadata is due (get_metadata() is called) on run #1, and on a
\* later run iff at least metadata_interval has elapsed since the most recent
\* run after run #1 on which it was due, or since the construction of the
\* Collector (time 0) when there is none; it is attached to the payload
\* exactly when it was due and get_metadata() returned.
C7_ComputedSinceLastLaterComputation ==
    /\ \A k \in 1..Len(hist) :
           /\ hist[k].called <=>
                  \/ k = 1
                  \/ hist[k].t - LastLaterComputation(k) >= metadata_interval
           /\ hist[k].attached => hist[k].called
    /\ (hist # <<>> /\ outcome # "exc_build") =>
           ((payload.meta # Absent) <=> hist[Len(hist)].attached)
    /\ (hist # <<>> /\ outcome = "exc_build") =>
           (hist[Len(hist)].called /\ ~hist[Len(hist)].attached)

\* run #1 came after the construction, and run #2 attached Metadata less than
\* metadata_interval after run #1 did
C7_Witness ==
    /\ Len(hist) >= 2
    /\ hist[1].t > 0
    /\ hist[1].attached
    /\ hist[2].attached
    /\ hist[2].t - hist[1].t < metadata_interval
    /\ payload.meta # Absent

\* C8: in every payload handed to an emitter, the metric list is the
\* concatenation, in execution order, of the metric lists the checks returned
\* in this run.
C8_MetricsAreTheReturnedLists ==
    \A k \in 1..Len(emitted) : emitted[k].payload.metrics = returned

\* C9: when a plugin check stores a non-empty event list under a key that is
\* already in the event mapping, the new list is the old one followed by the
\* check's events, and no other key changes.
C9_EventsAreAppended ==
    [][(pc = "running" /\ log' # log) =>
           LET o == log'[Len(log')]
           IN  (o.raise = "none" /\ o.events # <<>>
                   /\ o.name \in DOMAIN payload.events) =>
                   /\ payload'.events[o.name] = payload.events[o.name] \o o.events
                   /\ \A key \in DOMAIN payload.events \ {o.name} :
                          /\ key \in DOMAIN payload'.events
                          /\ payload'.events[key] = payload.events[key]]_vars

\* the last plugin check stored events under a key that held events already
C9_Witness ==
    /\ pc = "plugin"
    /\ log # <<>>
    /\ LET o == log[Len(log)]
       IN  /\ o.raise = "none"
           /\ o.events # <<>>
           /\ Len(payload.events[o.name]) > Len(o.events)

\* C10: in every payload handed to an emitter, payload['resources'] holds
\* 'meta' iff some resource check returned a non-empty list from
\* pop_snapshots() in this run; on Windows no resource check is run and 'meta'
\* is never there.
C10_ResourceMetaIffSnapshots ==
    \A k \in 1..Len(emitted) :
        LET r == emitted[k].payload.resources
        IN  /\ ("meta" \in DOMAIN r) <=>
                   (\E c \in DOMAIN snapshots : Truthy(snapshots[c]))
            /\ os = "windows" => (DOMAIN snapshots = {} /\ "meta" \notin DOMAIN r)

\* an emitter was handed a payload with the 'meta' record
C10_Witness ==
    /\ emitted # <<>>
    /\ "meta" \in DOMAIN emitted[1].payload.resources
    /\ \E c \in DOMAIN snapshots : Truthy(snapshots[c])

\* run() has just been called
RunStarts == run_count' = run_count + 1

\* C11: the metadata of every CollectorStatus handed to persist() is there (run
\* #1 has been attempted by then) and is the Metadata of the latest run, this
\* one included, in which get_metadata() returned: the cache handed to
\* persist() becomes the Metadata of this run when it is computed, and is
\* otherwise what it was, from one run to the next.
C11_PersistedMetadataIsLastComputed ==
    [][/\ RunStarts =>
              IF hist'[Len(hist')].attached
              THEN metadata_cache' = payload'.meta
              ELSE metadata_cache' = metadata_cache
       /\ ~RunStarts => metadata_cache' = metadata_cache
       /\ (collector_status = Absent /\ collector_status' # Absent) =>
              /\ collector_status'[1].status.metadata = metadata_cache
              /\ collector_status'[1].status.metadata # Absent]_vars

\* C12: when get_metadata() raises in a run in which Metadata is due,
\* _build_payload still returns a payload: no exception leaves it, the run goes
\* on to the checks, and the cached metadata is what it was.
C12_BuildPayloadNeverFails ==
    [][(RunStarts /\ hist'[Len(hist')].called /\ ~hist'[Len(hist')].attached) =>
           /\ outcome' # "exc_build"
           /\ pc' = "system"
           /\ metadata_cache' = metadata_cache]_vars

\* C13: whatever persist() does, raising included, run() returns normally from
\* the persist step and the step changes nothing of the Collector (run_count,
\* continue_running, metadata_start, metadata_cache, os, agentConfig) unless
\* stop() does: the state the next run starts from is the same after a failed
\* persist as after a successful one.
C13_PersistFailureChangesNothing ==
    [][pc = "persist" =>
           \/ pc' = "persist"
           \/ /\ pc' = "idle"
              /\ outcome' = "finished"
              /\ collector' = collector
              /\ construction' = construction
              /\ now' = now]_vars

\* persist() raised in the second or a later run, which has returned normally
C13_Witness ==
    /\ collector_status # Absent
    /\ collector_status[1].persist = "raise"
    /\ Finished
    /\ run_count >= 2

\* the payload keys under which the code stores the result of a Unix system
\* check
ProbeKeys(c) ==
    CASE c = "disk" -> {"diskUsage", "inodes"}
      [] c = "load" -> {"load"}
      [] c = "memory" -> MemoryKeys
      [] c = "io" -> {"ioStats"}
      [] c = "processes" -> {"processes"}
      [] c = "network" -> {"networkTraffic"}
      [] c = "cpu" -> {"cpuStats"}

\* C14: when no system check raises, a system check that returns None or
\* another falsy value is skipped, on either operating system: no exception
\* leaves the system checks, and on Unix no payload key of that check is
\* written.
C14_FalsySystemResultIsSkipped ==
    (probes # Absent /\ probes[1].raised = "-") =>
        LET v == probes[1].results[1]
        IN  /\ outcome # "exc_system"
            /\ os # "windows" =>
                   \A c \in DOMAIN v :
                       ~Truthy(v[c]) => ProbeKeys(c) \cap payload.keys = {}

\* C15: the payloads handed to emitters in the first run in which an emitter is
\* invoked (whatever became of the runs before it) hold the Metadata, the
\* SystemStats of the first run and the 'Agent Startup' event.
C15_FirstDeliveredPayloadHasMetadata ==
    (emitted # <<>> /\ \A k \in 1..(Len(hist) - 1) : ~hist[k].delivered) =>
        \A i \in 1..Len(emitted) :
            LET p == emitted[i].payload
            IN  /\ p.meta # Absent
                /\ "meta" \in p.keys
                /\ "systemStats" \in p.keys
                /\ "System" \in DOMAIN p.events
                /\ StartupEvent \in Range(p.events["System"])

\* C16: once stop() has been called the flag stays down, and no emitter
\* invocation begins: no step adds an invocation (an iteration of the emitter
\* loop begins with its test of continue_running), the emitter that is
\* executing runs to completion and gets its status, and this holds in every
\* later run() as well.
C16_NoEmitterBeginsAfterStop ==
    [][~continue_running =>
           /\ ~continue_running'
           /\ Len(emitted') <= Len(emitted)
           /\ pc = "emitting" =>
                  /\ pc' = "emit"
                  /\ emitted'[Len(emitted)].result # "running"
                  /\ Len(emitter_statuses') = Len(emitter_statuses) + 1]_vars

\* stop() came while the first emitter was executing: it has its status, the
\* second emitter was skipped and _emit() has returned
C16_Witness ==
    /\ ~continue_running
    /\ pc = "persist"
    /\ Len(emitted) = 1
    /\ Len(emitter_statuses) = 1
    /\ emitted[1].result # "running"

\* C17, as claimed: in a run during which stop() is called before the first
\* emitter would be invoked, no emitter is invoked and no CollectorStatus is
\* persisted, whatever the list of plugin checks and whichever check was
\* executing.  (Stated for a stop() that comes once a plugin check of the run
\* has been started.)
C17_StopBeforeEmitNeverPersists ==
    stop_i > 0 => (emitted = <<>> /\ collector_status = Absent)

\* C17, amended: in such a run, and in a run that starts after stop() was
\* called, no emitter is invoked.  When a plugin check had
\* still to be started as stop() was called, no CollectorStatus is persisted;
\* when none had (the last check of the list was executing or over, or the list
\* is empty), the run goes on unless an exception of a built-in check ends it:
\* _emit() returns no status and the CollectorStatus that is persisted holds
\* the CheckStatus of every plugin check and no EmitterStatus.
C17_StopBeforeEmitInvokesNoEmitter ==
    stop_i >= 0 =>
        /\ emitted = <<>>
        /\ emitter_statuses = <<>>
        /\ stop_i < Len(checksd) => collector_status = Absent
        /\ stop_i >= Len(checksd) =>
               /\ collector_status # Absent =>
                      /\ collector_status[1].status.emitter_statuses = <<>>
                      /\ NamesOf(collector_status[1].status.check_statuses) = checksd
               /\ RunOver =>
                      \/ outcome \in BuiltinException /\ collector_status = Absent
                      \/ outcome = "finished" /\ collector_status # Absent

\* stop() came while the last of two plugin checks was executing; the run has
\* persisted a CollectorStatus with two CheckStatus and no EmitterStatus
C17_Witness ==
    /\ stop_i = 2
    /\ Len(checksd) = 2
    /\ Finished
    /\ emitted = <<>>
    /\ collector_status # Absent
    /\ Len(collector_status[1].status.check_statuses) = 2
    /\ collector_status[1].status.emitter_statuses = <<>>

\* C18: when stop() is first called while emitter k is executing, emitters 1..k
\* and no other are invoked, _emit() returns the statuses of emitters 1..k in
\* order, and the run persists a CollectorStatus with exactly those statuses
\* and the CheckStatus of every plugin check of the list.
C18_StopDuringEmitterKeepsStatuses ==
    \A k \in 1..Len(emitted) :
        emitted[k].stop =>
            /\ Len(emitted) = k
            /\ NamesOf(emitted) = Prefix(emitters, k)
            /\ pc = "persist" \/ RunOver =>
                   NamesOf(emitter_statuses) = Prefix(emitters, k)
            /\ RunOver =>
                   /\ outcome = "finished"
                   /\ collector_status # Absent
                   /\ collector_status[1].status.emitter_statuses = emitter_statuses
                   /\ collector_status[1].status.check_statuses = check_statuses
                   /\ NamesOf(check_statuses) = checksd

\* stop() came while the first emitter was executing, the emitter raised, and
\* the run has persisted a CollectorStatus with that one EmitterStatus
C18_Witness ==
    /\ Finished
    /\ Len(emitted) = 1
    /\ emitted[1].stop
    /\ emitted[1].result = "raise"
    /\ Len(collector_status[1].status.emitter_statuses) = 1
    /\ collector_status[1].status.emitter_statuses[1].error # None
    /\ Len(collector_status[1].status.check_statuses) = 1

IsPrefix(a, b) == Len(a) <= Len(b) /\ SubSeq(b, 1, Len(a)) = a

\* C19: when no old-style check raises, the merge of their results comes to its
\* end whatever they returned, and from then on payload['mongoDB'] has no
\* 'events' key, the payload has no 'dogstreamEvents' key, and the event lists
\* the MongoDB and dogstream checks returned are in the event mapping under
\* 'Mongo' and 'dogstream'.
C19_EventsAreExtractedAndStripped ==
    (probes # Absent /\ probes[1].legacy # Absent) =>
        LET v == probes[1].legacy[1]
        IN  /\ outcome # "exc_legacy"
            /\ "events" \notin payload.mongoDB
            /\ "dogstreamEvents" \notin payload.keys
            /\ v["mongodb"] = "events" =>
                   /\ "Mongo" \in DOMAIN payload.events
                   /\ IsPrefix(MongoEvents, payload.events["Mongo"])
            /\ v["dogstream"] = "events" =>
                   /\ "dogstream" \in DOMAIN payload.events
                   /\ IsPrefix(DogstreamEvents, payload.events["dogstream"])

RECURSIVE SumLen(_, _)
SumLen(ev, S) ==
    IF S = {} THEN 0
    ELSE LET k == CHOOSE x \in S : TRUE
         IN  Len(ev[k]) + SumLen(ev, S \ {k})

\* the number of events in an event mapping
EventTotal(ev) == SumLen(ev, DOMAIN ev)

\* C20: the CheckStatus recorded for a plugin check, whether the check raised
\* in run(), in get_metrics(), in get_events() or not at all, counts what the
\* check added to the payload in this iteration: metric_count is the growth
\* of the metric list and event_count the growth of the event mapping.
C20_CountsAreWhatWasAdded ==
    [][(pc = "running" /\ log' # log) =>
           LET st == check_statuses'[Len(check_statuses')]
           IN  /\ Len(check_statuses') = Len(check_statuses) + 1
               /\ st.name = checksd[check_idx]
               /\ st.metric_count = Len(payload'.metrics) - Len(payload.metrics)
               /\ st.event_count =
                      EventTotal(payload'.events) - EventTotal(payload.events)]_vars

\* the last plugin check returned a metric from get_metrics() and raised in
\* get_events(): its status counts no metric, and none was added
C20_Witness ==
    /\ pc = "plugin"
    /\ log # <<>>
    /\ Len(check_statuses) = Len(log)
    /\ log[Len(log)].raise = "get_events"
    /\ log[Len(log)].metrics # <<>>
    /\ check_statuses[Len(log)].metric_count = 0
    /\ check_statuses[Len(log)].event_count = 0

====
